---- MODULE Spec2Model ----
(***************************************************************************)
(* Model of the trade journal:                                             *)
(*   src/services/marketDataService.ts  (subscribeMarketData)              *)
(*   src/hooks/useMarketData.ts         (useMarketData)                    *)
(*   src/hooks/useTrades.ts, src/services/tradeStorageService.ts           *)
(*   the submit of CreateTradeModal and the save of TradeDetailModal       *)
(* A string is a sequence of one-character strings, so that trim(),        *)
(* toUpperCase() and toLowerCase() are computed, not assumed.              *)
(* A WebSocket is a record of the array `sockets`; its index is the object *)
(* identity and 0 is null.                                                 *)
(***************************************************************************)
EXTENDS Integers, Sequences, FiniteSets, TLC

\* ------------------------------------------------------------------ bounds
\* Each specification of the service bounds the WebSockets created and the
\* callback-side events (message events plus empty-branch subscribe calls)
\* of a behaviour; the others bound their effect runs or their trade lists.
MaxSockets   == 3   \* Spec
MaxEvents    == 2
ResubSockets == 2   \* SpecResub
ResubEvents  == 3
HookRuns     == 3   \* SpecHook: effect runs and message events
HookEvents   == 2
QuoteSockets == 2   \* SpecQuote
QuoteEvents  == 2
SymbolTrades == 3   \* SpecSymbols: the length of the trade list
LiveSockets == 2
LiveEvents == 1
FilterTrades == 2   \* SpecFilter: the length of the trade list
PageTrades == 3     \* SpecPage: the number of trades ever created
JournalTrades == 2  \* SpecJournal: the length of the trade list
FoldSockets  == 1   \* SpecFold
FoldEvents   == 3
DecodeSockets == 1  \* SpecDecode
DecodeEvents  == 3

\* --------------------------------------------------------------- strings
Null == 0
Undefined == <<"undefined">>       \* a missing string field of a payload
NoPrice == "undefined"             \* a missing price field of a payload

UpperOf == [c \in {" ", "b", "e", "B", "E"} |->
              IF c = "b" THEN "B" ELSE IF c = "e" THEN "E" ELSE c]
LowerOf == [c \in {" ", "b", "e", "B", "E"} |->
              IF c = "B" THEN "b" ELSE IF c = "E" THEN "e" ELSE c]

toUpperCase(s) == [i \in 1..Len(s) |-> UpperOf[s[i]]]
toLowerCase(s) == [i \in 1..Len(s) |-> LowerOf[s[i]]]

RECURSIVE trimStart(_)
trimStart(s) == IF s # <<>> /\ Head(s) = " " THEN trimStart(Tail(s)) ELSE s

RECURSIVE trimEnd(_)
trimEnd(s) ==
  IF s # <<>> /\ s[Len(s)] = " " THEN trimEnd(SubSeq(s, 1, Len(s) - 1)) ELSE s

trim(s) == trimEnd(trimStart(s))

\* symbols.map((s) => s.trim().toUpperCase()).filter(Boolean)
Trimmed(symbols) ==
  SelectSeq([i \in 1..Len(symbols) |-> toUpperCase(trim(symbols[i]))],
            LAMBDA s : s # <<>>)

\* stream names that keep the case of the normalized symbol
StreamsKeepCase(trimmed) ==
  [i \in 1..Len(trimmed) |-> trimmed[i] \o <<"@ticker">>]

\* trimmed.map((symbol) => `${symbol.toLowerCase()}@ticker`)
Streams(trimmed) ==
  [i \in 1..Len(trimmed) |-> toLowerCase(trimmed[i]) \o <<"@ticker">>]

\* ------------------------------------------------------------- WebSocket
CONNECTING == 0
OPEN       == 1
CLOSING    == 2
CLOSED     == 3

EmptyMap == [k \in {} |-> 0]

VARIABLES
  currentWs,   \* module-level `currentWs`: index into sockets, or Null
  sockets,     \* every WebSocket created so far, in creation order
  delivered,   \* every callback invocation so far: [session, data]
  invoked,     \* the sockets whose returned cleanup has been invoked
  now,         \* the clock read by new Date()
  threw,       \* an exception escaped a handler or a call
  calls,       \* subscribeMarketData calls: [open, empty]
  lastOp,      \* the caller's call that produced this state, with its
               \* inputs, or Event after a socket event
  handed,      \* the object handed to each callback invocation, parallel
               \* to delivered
  hook,        \* useMarketData: props, state and effect runs
  trades,      \* useTrades: the in-memory trade list
  storage,     \* localStorage: the two keys of tradeStorageService, each
               \* <<>> when not set and <<value>> when set
  uniqueSymbols, \* the symbols memo of TradeListPage: [queried, value]
  filters,        \* TradeListPage: the `filters` state
  selectedTradeIds, \* TradeListPage: the `selectedTradeIds` state
  filteredTrades  \* TradeListPage: the `filteredTrades` memo

serviceVars ==
  <<currentWs, sockets, delivered, invoked, now, threw, calls, lastOp, handed>>
pageVars == <<filters, selectedTradeIds, filteredTrades>>
journalVars == <<trades, storage, uniqueSymbols, pageVars>>
vars == <<serviceVars, hook, journalVars>>

Ids == 1..Len(sockets)

\* WebSocket.close(): a no-op on a socket that is closing or closed, and
\* otherwise the start of the closing handshake (no message event is
\* dispatched on a socket that is not OPEN).
Close(socks, w) ==
  IF socks[w].readyState \in {CLOSING, CLOSED}
    THEN socks
    ELSE [socks EXCEPT ![w].readyState = CLOSING]

\* ref.close() inside a handler whose state so far is st: a TypeError when
\* ref is null, and nothing more of the handler runs once it has thrown.
CallClose(st, ref) ==
  IF st.threw THEN st
  ELSE IF ref = Null THEN [st EXCEPT !.threw = TRUE]
  ELSE [st EXCEPT !.socks = Close(st.socks, ref)]

\* currentWs = v inside a handler
SetCurrent(st, v) == IF st.threw THEN st ELSE [st EXCEPT !.cur = v]

Entry == [socks |-> sockets, cur |-> currentWs, threw |-> FALSE]

Commit(st) ==
  /\ sockets' = st.socks
  /\ currentWs' = st.cur
  /\ threw' = (threw \/ st.threw)

Op(name, ws, arg) == [op |-> name, ws |-> ws, arg |-> arg]
Event == Op("event", Null, <<>>)

\* the module just loaded: `let currentWs = null`
ServiceInit ==
  /\ currentWs = Null
  /\ sockets = <<>>
  /\ delivered = <<>>
  /\ invoked = {}
  /\ now = 0
  /\ threw = FALSE
  /\ calls = [open |-> 0, empty |-> 0]
  /\ lastOp = Op("init", Null, <<>>)
  /\ handed = <<>>

\* useMarketData before its first render commits: the useState initial
\* values and no effect run
Unmounted ==
  [mounted |-> FALSE, symbolsKey |-> <<>>, reconnectTrigger |-> 0,
   data |-> EmptyMap, isLoading |-> TRUE, error |-> Null, runs |-> <<>>]

\* TradeListPage: defaultFilters
defaultFilters ==
  [symbol |-> <<>>, position |-> "", status |-> "", entryType |-> "",
   tags |-> <<>>, searchNotes |-> <<>>]

\* an empty localStorage and nothing loaded
JournalInit ==
  /\ trades = <<>>
  /\ storage = [trades |-> <<>>, symbols |-> <<>>]
  /\ uniqueSymbols = [queried |-> FALSE, value |-> <<>>]
  /\ filters = defaultFilters
  /\ selectedTradeIds = <<>>
  /\ filteredTrades = <<>>

Init ==
  /\ ServiceInit
  /\ hook = Unmounted
  /\ JournalInit

\* An object reference: the session that made the object and, for an object
\* made for the n-th callback invocation, n; copy 0 is the session's own
\* dataMap.
Fresh(w, n) == [owner |-> w, copy |-> n]

\* --------------------------------------------------- subscribeMarketData
\* the empty branch without its `if (previousWs)` test
EmptyBranchUnguarded(previousWs) ==
  SetCurrent(CallClose(Entry, previousWs), Null)

\* the `trimmed.length === 0` branch
EmptyBranch(previousWs) ==
  IF previousWs # Null
    THEN SetCurrent(CallClose(Entry, previousWs), Null)
    ELSE Entry

SubscribeEmpty(symbols) ==
  LET previousWs == currentWs
      st == EmptyBranch(previousWs)
  IN /\ Trimmed(symbols) = <<>>
     /\ Commit(st)
     /\ delivered' = IF st.threw THEN delivered
                     ELSE Append(delivered, [session |-> Null, data |-> EmptyMap])
     /\ handed' = IF st.threw THEN handed
                  ELSE Append(handed, Fresh(Null, Len(delivered) + 1))
     /\ calls' = [calls EXCEPT !.empty = @ + 1]
     /\ lastOp' = Op("subscribe", Null, symbols)
     /\ UNCHANGED <<invoked, now>>

\* a new socket whose session starts from the previous session's snapshot
NewSocketInherits(trimmed, previousWs) ==
  [readyState |-> CONNECTING,
   streams |-> Streams(trimmed),
   previousWs |-> previousWs,
   dataMap |-> IF previousWs = Null THEN EmptyMap ELSE sockets[previousWs].dataMap,
   received |-> <<>>]

\* new WebSocket(wsUrl) with its per-call closure (previousWs, dataMap);
\* received is the log of its message events
NewSocket(trimmed, previousWs) ==
  [readyState |-> CONNECTING,
   streams |-> Streams(trimmed),
   previousWs |-> previousWs,
   dataMap |-> EmptyMap,
   received |-> <<>>]

SubscribeOpen(symbols) ==
  LET trimmed == Trimmed(symbols)
      previousWs == currentWs
  IN /\ trimmed # <<>>
     /\ sockets' = Append(sockets, NewSocket(trimmed, previousWs))
     /\ currentWs' = Len(sockets) + 1
     /\ calls' = [calls EXCEPT !.open = @ + 1]
     /\ lastOp' = Op("subscribe", Len(sockets) + 1, symbols)
     /\ UNCHANGED <<delivered, invoked, now, threw, handed>>

subscribeMarketData(symbols) ==
  SubscribeEmpty(symbols) \/ SubscribeOpen(symbols)

\* ----------------------------------------------------------- ws.onopen
\* an onopen that leaves the previous connection alone
onopenKeepsPrevious(w) == Entry

onopen(w) ==
  LET previousWs == sockets[w].previousWs
  IN IF previousWs # Null THEN CallClose(Entry, previousWs) ELSE Entry

\* The connection is established: readyState becomes OPEN, then onopen runs.
OnOpen(w) ==
  LET st == onopen(w)
  IN /\ sockets[w].readyState = CONNECTING
     /\ Commit([st EXCEPT !.socks[w].readyState = OPEN])
     /\ lastOp' = Event
     /\ UNCHANGED <<delivered, invoked, now, calls, handed>>

\* -------------------------------------------------------- ws.onmessage
Truthy(s) == s # Undefined /\ s # <<>>
TruthyPrice(c) == c # NoPrice /\ c # ""

\* JSON.parse(event.data) does not throw
Parses(msg) == msg.parses

\* the test without `!data.c`
UsableWithoutLast(msg) ==
  /\ msg.hasData
  /\ Truthy(msg.s)

\* `!data || !data.s || !data.c` is false
Usable(msg) ==
  /\ msg.hasData
  /\ Truthy(msg.s)
  /\ TruthyPrice(msg.c)

\* a ?? b
Coalesce(a, b) == IF a = NoPrice THEN b ELSE a

toMarketSymbolData(data, date) ==
  [symbol |-> data.s,
   last |-> data.c,
   last_btc |-> "1",
   lowest |-> Coalesce(data.l, data.c),
   highest |-> Coalesce(data.h, data.c),
   date |-> date,
   daily_change_percentage |-> Coalesce(data.P, "0"),
   source_exchange |-> "binance"]

\* a fold that keeps the first quote of a symbol
FoldFirstWins(dataMap, data, date) ==
  [k \in DOMAIN dataMap \cup {data.s} |->
     IF k \in DOMAIN dataMap THEN dataMap[k] ELSE toMarketSymbolData(data, date)]

\* a fold that fills a missing high or low from the symbol's earlier quote
FoldMerges(dataMap, data, date) ==
  LET quote == toMarketSymbolData(data, date)
      merged == IF data.s \in DOMAIN dataMap
                  THEN [quote EXCEPT
                          !.highest = IF data.h = NoPrice THEN dataMap[data.s].highest ELSE @,
                          !.lowest = IF data.l = NoPrice THEN dataMap[data.s].lowest ELSE @]
                  ELSE quote
  IN [k \in DOMAIN dataMap \cup {data.s} |->
        IF k = data.s THEN merged ELSE dataMap[k]]

\* dataMap[data.s] = toMarketSymbolData(data)
Fold(dataMap, data, date) ==
  [k \in DOMAIN dataMap \cup {data.s} |->
     IF k = data.s THEN toMarketSymbolData(data, date) ELSE dataMap[k]]

\* an onmessage that publishes only when the tick adds a symbol
onmessageCoalesces(dataMap, msg, date) ==
  IF Parses(msg) /\ Usable(msg)
    THEN [dataMap |-> Fold(dataMap, msg, date),
          publish |-> msg.s \notin DOMAIN dataMap]
    ELSE [dataMap |-> dataMap, publish |-> FALSE]

\* the body of onmessage: the session's dataMap afterwards and whether the
\* callback was called with a copy of it
onmessage(dataMap, msg, date) ==
  IF Parses(msg) /\ Usable(msg)
    THEN [dataMap |-> Fold(dataMap, msg, date), publish |-> TRUE]
    ELSE [dataMap |-> dataMap, publish |-> FALSE]

\* callback(dataMap): the session's own map handed out
SpreadShares(w, n) == [owner |-> w, copy |-> 0]

\* `{ ...dataMap }`: a new object with the entries of dataMap
Spread(w, n) == Fresh(w, n)

Range(f) == {f[i] : i \in DOMAIN f}

\* the ticks a feed sends on socket w: those of the streams it was opened for
Subscribed(w, ticks) ==
  {m \in ticks : toLowerCase(m.s) \o <<"@ticker">> \in Range(sockets[w].streams)}

\* an onmessage that drops the ticks of symbols the session did not ask for
OnMessageSubscribedOnly(w, msg) ==
  LET r == IF Parses(msg) /\ Usable(msg) /\ Subscribed(w, {msg}) = {}
             THEN [dataMap |-> sockets[w].dataMap, publish |-> FALSE]
             ELSE onmessage(sockets[w].dataMap, msg, now + 1)
  IN /\ sockets[w].readyState = OPEN
     /\ now' = now + 1
     /\ sockets' = [sockets EXCEPT ![w].dataMap = r.dataMap,
                                   ![w].received = Append(@, [msg |-> msg, at |-> now + 1])]
     /\ delivered' = IF r.publish
                       THEN Append(delivered, [session |-> w, data |-> r.dataMap])
                       ELSE delivered
     /\ handed' = IF r.publish
                    THEN Append(handed, Spread(w, Len(delivered) + 1))
                    ELSE handed
     /\ lastOp' = Event
     /\ UNCHANGED <<currentWs, invoked, threw, calls>>

\* A message event is dispatched on an OPEN socket and onmessage runs.
OnMessage(w, msg) ==
  LET r == onmessage(sockets[w].dataMap, msg, now + 1)
  IN /\ sockets[w].readyState = OPEN
     /\ now' = now + 1
     /\ sockets' = [sockets EXCEPT ![w].dataMap = r.dataMap,
                                   ![w].received = Append(@, [msg |-> msg, at |-> now + 1])]
     /\ delivered' = IF r.publish
                       THEN Append(delivered, [session |-> w, data |-> r.dataMap])
                       ELSE delivered
     /\ handed' = IF r.publish
                    THEN Append(handed, Spread(w, Len(delivered) + 1))
                    ELSE handed
     /\ lastOp' = Event
     /\ UNCHANGED <<currentWs, invoked, threw, calls>>

\* ------------------------------------------------ ws.onerror / ws.onclose
\* an onclose that reconnects with the same streams
oncloseReconnects(w) ==
  [Entry EXCEPT !.socks = Append(@, [sockets[w] EXCEPT !.readyState = CONNECTING,
                                                       !.previousWs = Null,
                                                       !.dataMap = EmptyMap,
                                                       !.received = <<>>]),
                !.cur = Len(sockets) + 1]

\* an onclose that leaves currentWs alone
oncloseKeepsCurrent(w) == Entry

onclose(w) == IF currentWs = w THEN SetCurrent(Entry, Null) ELSE Entry

\* a close event that also tells the caller, with an empty snapshot
OnCloseNotifies(w) ==
  LET st == onclose(w)
  IN /\ sockets[w].readyState # CLOSED
     /\ Commit([st EXCEPT !.socks[w].readyState = CLOSED])
     /\ delivered' = Append(delivered, [session |-> w, data |-> EmptyMap])
     /\ handed' = Append(handed, Fresh(w, Len(delivered) + 1))
     /\ lastOp' = Event
     /\ UNCHANGED <<invoked, now, calls>>

\* The connection is lost (failed open or remote close), or the closing
\* handshake started by close() ends: readyState becomes CLOSED, then
\* onerror (which only logs) and onclose run.
OnClose(w) ==
  LET st == onclose(w)
  IN /\ sockets[w].readyState # CLOSED
     /\ Commit([st EXCEPT !.socks[w].readyState = CLOSED])
     /\ lastOp' = Event
     /\ UNCHANGED <<delivered, invoked, now, calls, handed>>

\* ------------------------------------------------- the returned cleanup
\* a cleanup that clears currentWs whichever socket it refers to
cleanupClearsAny(w) ==
  LET previousWs == sockets[w].previousWs
      st == SetCurrent(IF currentWs = w THEN CallClose(Entry, currentWs) ELSE Entry,
                       Null)
  IN IF previousWs # Null THEN CallClose(st, previousWs) ELSE st

\* a cleanup that drops the reference without closing the socket
cleanupForgets(w) ==
  LET previousWs == sockets[w].previousWs
      st == IF currentWs = w THEN SetCurrent(Entry, Null) ELSE Entry
  IN IF previousWs # Null THEN CallClose(st, previousWs) ELSE st

\* a cleanup that closes only its own socket
cleanupKeepsPrevious(w) ==
  IF currentWs = w
    THEN SetCurrent(CallClose(Entry, currentWs), Null)
    ELSE Entry

cleanup(w) ==
  LET previousWs == sockets[w].previousWs
      st == IF currentWs = w
              THEN SetCurrent(CallClose(Entry, currentWs), Null)
              ELSE Entry
  IN IF previousWs # Null THEN CallClose(st, previousWs) ELSE st

Unsubscribe(w) ==
  /\ Commit(cleanup(w))
  /\ invoked' = invoked \cup {w}
  /\ lastOp' = Op("unsubscribe", w, <<w \in invoked, currentWs = w>>)
  /\ UNCHANGED <<delivered, now, calls, handed>>

\* the `() => {}` returned by the empty branch
UnsubscribeNoop ==
  /\ calls.empty > 0
  /\ lastOp' = Op("unsubscribeNoop", Null, <<>>)
  /\ UNCHANGED <<currentWs, sockets, delivered, invoked, now, threw, calls, handed>>

\* ------------------------------------------------------------- inputs
Tick(s, c, h, l, P) ==
  [parses |-> TRUE, hasData |-> TRUE, s |-> s, c |-> c, h |-> h, l |-> l, P |-> P]

NotJson == [parses |-> FALSE, hasData |-> FALSE, s |-> Undefined,
            c |-> NoPrice, h |-> NoPrice, l |-> NoPrice, P |-> NoPrice]
NoData == [NotJson EXCEPT !.parses = TRUE]

TickB == Tick(<<"B">>, "1", NoPrice, NoPrice, NoPrice)
TickE == Tick(<<"E">>, "2", "3", "1", "-1.2")

Blank == << <<" ">> >>
SymB  == << <<"b">> >>
SymE  == << <<" ", "E", " ">> >>

\* the payloads that may arrive on socket w
Feed(w, payloads, subscribedOnly) ==
  IF subscribedOnly THEN Subscribed(w, payloads) ELSE payloads

\* The service driven directly by a caller: the hook and the journal idle.
Step(inputs, payloads, subscribedOnly, maxSockets, maxEvents) ==
  \/ \E symbols \in inputs :
       /\ IF Trimmed(symbols) = <<>> THEN now + calls.empty < maxEvents
                                     ELSE Len(sockets) < maxSockets
       /\ subscribeMarketData(symbols)
       /\ UNCHANGED <<hook, journalVars>>
  \/ \E w \in Ids : OnOpen(w) /\ UNCHANGED <<hook, journalVars>>
  \/ \E w \in Ids : \E msg \in Feed(w, payloads, subscribedOnly) :
       /\ now + calls.empty < maxEvents
       /\ OnMessage(w, msg)
       /\ UNCHANGED <<hook, journalVars>>
  \/ \E w \in Ids : OnClose(w) /\ UNCHANGED <<hook, journalVars>>
  \/ \E w \in Ids : Unsubscribe(w) /\ UNCHANGED <<hook, journalVars>>
  \/ UnsubscribeNoop /\ UNCHANGED <<hook, journalVars>>

\* Connection lifecycle: up to MaxSockets sessions racing.
Next ==
  Step({<<>>, Blank, SymB}, {TickB}, FALSE, MaxSockets, MaxEvents)
Spec == Init /\ [][Next]_vars

\* Resubscription: two symbol sets, ticks for both symbols.
NextResub ==
  Step({Blank, SymB, SymE}, {TickB, TickE}, TRUE,
       ResubSockets, ResubEvents)
SpecResub == Init /\ [][NextResub]_vars

\* Folding: one session, ticks that add a key and ticks that replace one.
TickB2 == Tick(<<"B">>, "2", "3", "1", "-1.2")
FoldFeed == {TickB, TickB2, TickE}
NextFold ==
  Step({Blank, SymB}, FoldFeed, FALSE, FoldSockets, FoldEvents)
SpecFold == Init /\ [][NextFold]_vars

\* Teardown: every handle returned is eventually invoked by its caller, and
\* the browser ends every closing handshake that close() started. Nothing is
\* assumed about opens, failed opens, drops or ticks.
NextLive ==
  Step({<<>>, Blank, SymB}, {TickB}, FALSE, LiveSockets, LiveEvents)
HandleInvoked(w) == w \in Ids /\ w \notin invoked /\ Unsubscribe(w)
HandshakeEnds(w) ==
  /\ w \in Ids
  /\ sockets[w].readyState = CLOSING
  /\ OnClose(w)
  /\ UNCHANGED <<hook, journalVars>>
SpecLive ==
  /\ Init
  /\ [][NextLive]_vars
  /\ \A w \in 1..LiveSockets :
       /\ WF_vars(HandleInvoked(w) /\ UNCHANGED <<hook, journalVars>>)
       /\ WF_vars(HandshakeEnds(w))

\* Decoding: one session, a tick among payloads that must be dropped.
NoSymbol == Tick(Undefined, "1", NoPrice, NoPrice, NoPrice)
NoLast   == Tick(<<"E">>, NoPrice, "3", "1", "-1.2")
DecodeFeed == {TickB, NotJson, NoData, NoSymbol, NoLast}
NextDecode ==
  Step({Blank, SymB}, DecodeFeed, FALSE, DecodeSockets, DecodeEvents)
SpecDecode == Init /\ [][NextDecode]_vars

\* Quotes: a list with a padded and a blank entry; ticks that replace a
\* quote with fewer fields and a tick whose symbol is in lowercase.
Mixed == << <<"b">>, <<" ">>, <<" ", "E", " ">> >>
TickLower == Tick(<<"b">>, "3", NoPrice, "1", NoPrice)
QuoteFeed == {TickB, TickB2, TickLower}
NextQuote ==
  Step({Blank, Mixed}, QuoteFeed, FALSE, QuoteSockets, QuoteEvents)
SpecQuote == Init /\ [][NextQuote]_vars

\* ------------------------------------------------------- useMarketData
\* symbols.join(',')
RECURSIVE join(_)
join(symbols) ==
  IF symbols = <<>> THEN <<>>
  ELSE IF Len(symbols) = 1 THEN symbols[1]
  ELSE symbols[1] \o <<",">> \o join(Tail(symbols))

\* symbolsKey.split(',')
RECURSIVE split(_)
split(str) ==
  IF \A i \in DOMAIN str : str[i] # ","
    THEN <<str>>
    ELSE LET i == CHOOSE j \in DOMAIN str :
                    str[j] = "," /\ \A k \in 1..(j - 1) : str[k] # ","
         IN <<SubSeq(str, 1, i - 1)>> \o split(SubSeq(str, i + 1, Len(str)))

\* symbolsKey ? symbolsKey.split(',').filter(Boolean) : []
Syms(symbolsKey) ==
  IF symbolsKey = <<>> THEN <<>>
  ELSE SelectSeq(split(symbolsKey), LAMBDA x : x # <<>>)

\* the `() => {}` handle; an unsubscribe that is still undefined is Null and
\* any other handle is the socket its cleanup closes over
Noop == -1

\* One run of the effect: its closure variables. A run with no symbols
\* returned before creating them and has no cleanup.
Run(syms) ==
  [syms |-> syms, cancelled |-> FALSE, timer |-> syms # <<>>, unsubscribe |-> Null]

\* the body of the effect up to setTimeout
Effect(h) ==
  LET syms == Syms(h.symbolsKey)
  IN IF syms = <<>>
       THEN [h EXCEPT !.data = EmptyMap, !.isLoading = FALSE, !.error = Null,
                      !.runs = Append(@, Run(syms))]
       ELSE [h EXCEPT !.isLoading = TRUE, !.error = Null,
                      !.runs = Append(@, Run(syms))]

\* a cleanup that neither sets cancelled nor clears the timer
CancelNothing(h) == h

\* the cleanup returned by the effect, on the hook's side:
\* cancelled = true; clearTimeout(timer)
Cancel(h) ==
  LET n == Len(h.runs)
  IN IF n > 0 /\ h.runs[n].syms # <<>>
       THEN [h EXCEPT !.runs[n].cancelled = TRUE, !.runs[n].timer = FALSE]
       ELSE h

\* the handle the latest run holds
Handle(h) == IF h.runs = <<>> THEN Null ELSE h.runs[Len(h.runs)].unsubscribe

\* a cleanup that never invokes the handle
CallUnsubscribeSkips(handle) == UNCHANGED serviceVars

\* unsubscribe?.()
CallUnsubscribe(handle) ==
  IF handle = Null THEN UNCHANGED serviceVars
  ELSE IF handle = Noop THEN UnsubscribeNoop
  ELSE Unsubscribe(handle)

\* the callback of run r called with newData
callback(h, r, newData) ==
  IF h.runs[r].cancelled THEN h
  ELSE [h EXCEPT !.data = newData, !.isLoading = FALSE, !.error = Null]

\* the run whose subscribeMarketData call created session w
Owner(h, w) == CHOOSE r \in DOMAIN h.runs : h.runs[r].unsubscribe = w

\* the hook once the callback invocation of this step, if any, has run
Notified(h, r) ==
  IF Len(delivered') > Len(delivered)
    THEN callback(h, r, delivered'[Len(delivered')].data)
    ELSE h

\* A render commits with new dependencies (the mount included): the cleanup
\* of the previous run, then the effect.
HookRender(symbols, reconnectTrigger) ==
  LET key == join(symbols)
  IN /\ IF hook.mounted
          THEN key # hook.symbolsKey \/ reconnectTrigger # hook.reconnectTrigger
          ELSE hook.runs = <<>>
     /\ CallUnsubscribe(Handle(hook))
     /\ hook' = Effect([Cancel(hook) EXCEPT !.mounted = TRUE,
                                            !.symbolsKey = key,
                                            !.reconnectTrigger = reconnectTrigger])
     /\ UNCHANGED journalVars

\* The setTimeout(..., 0) of run r fires: `if (cancelled) return`, and
\* otherwise the subscribeMarketData call.
HookTimer(r) ==
  LET run == hook.runs[r]
      handle == IF lastOp'.ws = Null THEN Noop ELSE lastOp'.ws
  IN /\ run.timer
     /\ IF run.cancelled
          THEN /\ hook' = [hook EXCEPT !.runs[r].timer = FALSE]
               /\ UNCHANGED serviceVars
          ELSE /\ subscribeMarketData(run.syms)
               /\ hook' = [Notified([hook EXCEPT !.runs[r].timer = FALSE], r)
                             EXCEPT !.runs[r].unsubscribe = handle]
     /\ UNCHANGED journalVars

\* The component unmounts: the cleanup of the latest run.
HookUnmount ==
  /\ hook.mounted
  /\ CallUnsubscribe(Handle(hook))
  /\ hook' = [Cancel(hook) EXCEPT !.mounted = FALSE]
  /\ UNCHANGED journalVars

\* The service driven by one useMarketData.
HookStep(inputs, payloads, maxRuns, maxEvents) ==
  \/ \E symbols \in inputs :
       \E t \in {hook.reconnectTrigger, hook.reconnectTrigger + 1} :
         /\ Len(hook.runs) < maxRuns
         /\ HookRender(symbols, t)
  \/ \E r \in DOMAIN hook.runs : HookTimer(r)
  \/ HookUnmount
  \/ \E w \in Ids :
       /\ OnOpen(w)
       /\ hook' = Notified(hook, Owner(hook, w))
       /\ UNCHANGED journalVars
  \/ \E w \in Ids : \E msg \in Feed(w, payloads, TRUE) :
       /\ now < maxEvents
       /\ OnMessage(w, msg)
       /\ hook' = Notified(hook, Owner(hook, w))
       /\ UNCHANGED journalVars
  \/ \E w \in Ids :
       /\ OnClose(w)
       /\ hook' = Notified(hook, Owner(hook, w))
       /\ UNCHANGED journalVars

\* The hook: symbol lists as getUniqueSymbols produces them, and a blank one.
OnlyB == << <<"B">> >>
BothBE == << <<"B">>, <<"E">> >>
HookInputs == {<<>>, Blank, OnlyB, BothBE}
NextHook == HookStep(HookInputs, {TickB, TickE}, HookRuns, HookEvents)
SpecHook == Init /\ [][NextHook]_vars

\* --------------------------------------------------- tradeStorageService
\* an optional field of a Trade, or a localStorage key, that is not set,
\* and one that is set to x
Absent == <<>>
Some(x) == <<x>>

\* Array.from(new Set(list)): the distinct elements, in order of first
\* occurrence
RECURSIVE ArrayFromSet(_)
ArrayFromSet(list) ==
  IF list = <<>> THEN <<>>
  ELSE LET front == ArrayFromSet(SubSeq(list, 1, Len(list) - 1))
           last == list[Len(list)]
       IN IF last \in Range(front) THEN front ELSE Append(front, last)

\* getUniqueSymbols without toUpperCase
getUniqueSymbolsAsStored(tradeList) ==
  ArrayFromSet([i \in 1..Len(tradeList) |-> tradeList[i].symbol])

getUniqueSymbols(tradeList) ==
  ArrayFromSet([i \in 1..Len(tradeList) |-> toUpperCase(tradeList[i].symbol)])

\* TradeListPage: useMemo(() => tradeStorageService.getUniqueSymbols(trades))
QuerySymbols ==
  /\ uniqueSymbols' = [queried |-> TRUE, value |-> getUniqueSymbols(trades)]
  /\ UNCHANGED <<serviceVars, hook, trades, storage, pageVars>>

\* an open trade of the given symbol
OpenTrade(id, symbol) ==
  [id |-> id, symbol |-> symbol, position |-> "LONG", status |-> "OPEN",
   openTimestamp |-> 0, openPrice |-> 1, quantity |-> 1,
   closePrice |-> Absent, closeTimestamp |-> Absent,
   notes |-> Absent, tags |-> Absent]

SeqsUpTo(S, n) == UNION {[1..k -> S] : k \in 0..n}

\* getUniqueSymbols applied to every list of up to SymbolTrades trades whose
\* symbols differ in case, in length and not at all
SymbolChoices == {<<"b">>, <<"B">>, <<"E">>, <<"b", "E">>}
InitSymbols ==
  /\ ServiceInit
  /\ hook = Unmounted
  /\ \E symbols \in SeqsUpTo(SymbolChoices, SymbolTrades) :
       trades = [i \in DOMAIN symbols |-> OpenTrade(i, symbols[i])]
  /\ storage = [trades |-> <<>>, symbols |-> <<>>]
  /\ uniqueSymbols = [queried |-> FALSE, value |-> <<>>]
  /\ filters = defaultFilters
  /\ selectedTradeIds = <<>>
  /\ filteredTrades = trades
NextSymbols == QuerySymbols
SpecSymbols == InitSymbols /\ [][NextSymbols]_vars

\* ------------------------------------------------ useTrades and the modals
\* A number parsed from a form field: NaN or a value.
NaN == [nan |-> TRUE, value |-> 0]
Num(n) == [nan |-> FALSE, value |-> n]
isNaN(x) == x.nan

DigitOf == [c \in {"0", "5"} |-> IF c = "0" THEN 0 ELSE 5]

\* the value of the longest prefix of digits of str, after the digits `acc`
RECURSIVE digits(_, _)
digits(str, acc) ==
  IF str # <<>> /\ Head(str) \in DOMAIN DigitOf
    THEN digits(Tail(str), 10 * acc + DigitOf[Head(str)])
    ELSE acc

\* parseFloat on strings of spaces, a sign, digits and other characters
parseFloat(str) ==
  LET t == trimStart(str)
  IN IF t # <<>> /\ Head(t) \in DOMAIN DigitOf THEN Num(digits(t, 0))
     ELSE IF Len(t) > 1 /\ Head(t) = "-" /\ t[2] \in DOMAIN DigitOf
       THEN Num(0 - digits(Tail(t), 0))
     ELSE NaN

OptionalKeys == {"closePrice", "closeTimestamp", "notes", "tags"}
TradeKeys ==
  {"id", "symbol", "position", "status", "openTimestamp", "openPrice",
   "quantity", "closePrice", "closeTimestamp", "notes", "tags"}

\* JSON.stringify of a trade: a key whose value is undefined is left out
stringify(t) ==
  [k \in {j \in TradeKeys : j \in OptionalKeys => t[j] # Absent} |-> t[k]]

\* getAll: JSON.parse, then `status: t.status ?? 'CLOSED'`
parsed(json) ==
  [k \in TradeKeys |->
     IF k \in DOMAIN json THEN json[k]
     ELSE IF k = "status" THEN "CLOSED" ELSE Absent]

getAll ==
  IF storage.trades = Absent THEN <<>>
  ELSE [i \in DOMAIN storage.trades[1] |-> parsed(storage.trades[1][i])]

\* tradeStorageService.save(trades): both keys written
save(tradeList) ==
  [trades |-> Some([i \in DOMAIN tradeList |-> stringify(tradeList[i])]),
   symbols |-> Some(getUniqueSymbols(tradeList))]

\* CreateTradeModal.handleSubmit: whether onSubmit is called, and with
\* which trade
Rejected == [submitted |-> FALSE]
handleSubmit(form, id) ==
  LET op == parseFloat(form.openPrice)
      cp == IF trim(form.closePrice) # <<>> THEN parseFloat(form.closePrice) ELSE NaN
      qty == parseFloat(form.quantity)
  IN IF isNaN(op) \/ isNaN(qty) \/ op.value <= 0 \/ qty.value <= 0 THEN Rejected
     ELSE IF form.status = "CLOSED" /\ (isNaN(cp) \/ cp.value <= 0) THEN Rejected
     ELSE [submitted |-> TRUE,
           trade |->
             [id |-> id,
              symbol |-> toUpperCase(form.symbol),
              position |-> form.position,
              status |-> form.status,
              openTimestamp |-> form.openTimestamp,
              openPrice |-> op.value,
              quantity |-> qty.value,
              notes |-> IF trim(form.notes) # <<>>
                          THEN Some(trim(form.notes)) ELSE Absent,
              tags |-> IF form.selectedTags # <<>>
                         THEN Some(form.selectedTags) ELSE Absent,
              closePrice |-> IF form.status = "CLOSED" THEN Some(cp.value) ELSE Absent,
              closeTimestamp |-> IF form.status = "CLOSED"
                                   THEN Some(form.closeTimestamp) ELSE Absent]]

\* ------------------------------------------------------- tradeFilters
\* String.prototype.includes
includes(str, sub) ==
  \E i \in 0..(Len(str) - Len(sub)) : SubSeq(str, i + 1, i + Len(sub)) = sub

\* trade.tags || [] and trade.notes || ''
OrEmpty(field) == IF field = Absent THEN <<>> ELSE field[1]

\* the predicate of filterTrades: each `return false` test in turn
Keep(trade, f) ==
  /\ ~(f.symbol # <<>> /\ toUpperCase(trade.symbol) # toUpperCase(f.symbol))
  /\ ~(f.position # "" /\ trade.position # f.position)
  /\ ~(f.status # "" /\ trade.status # f.status)
  /\ ~(f.entryType # "" /\ (IF f.entryType = "BUY"
                              THEN trade.position # "LONG"
                              ELSE trade.position # "SHORT"))
  /\ Len(f.tags) > 0 =>
       LET tradeTags == OrEmpty(trade.tags)
       IN \A i \in DOMAIN f.tags : \E j \in DOMAIN tradeTags :
            toLowerCase(tradeTags[j]) = toLowerCase(f.tags[i])
  /\ trim(f.searchNotes) # <<>> =>
       LET query == toLowerCase(f.searchNotes)
           notes == toLowerCase(OrEmpty(trade.notes))
       IN includes(notes, query)

\* a filterTrades whose tags criterion is `some` instead of `every`
filterTradesAnyTag(tradeList, f) ==
  SelectSeq(tradeList,
            LAMBDA trade :
              /\ Keep(trade, [f EXCEPT !.tags = <<>>])
              /\ f.tags # <<>> =>
                   \E i \in DOMAIN f.tags : \E j \in DOMAIN OrEmpty(trade.tags) :
                     toLowerCase(OrEmpty(trade.tags)[j]) = toLowerCase(f.tags[i]))

filterTrades(tradeList, f) ==
  SelectSeq(tradeList, LAMBDA trade : Keep(trade, f))

\* [...trades].sort((a, b) => b.openTimestamp - a.openTimestamp): stable,
\* latest first
RECURSIVE sortTradesByOpenTimestamp(_)
sortTradesByOpenTimestamp(tradeList) ==
  IF tradeList = <<>> THEN <<>>
  ELSE LET first == Head(tradeList)
           rest == sortTradesByOpenTimestamp(Tail(tradeList))
           k == Cardinality({i \in DOMAIN rest :
                               rest[i].openTimestamp > first.openTimestamp})
       IN SubSeq(rest, 1, k) \o <<first>> \o SubSeq(rest, k + 1, Len(rest))

\* the filteredTrades memo for the given trades and filters
Rendered(tradeList, f) == sortTradesByOpenTimestamp(filterTrades(tradeList, f))

\* --------------------------------------------------------- coinsService
DEFAULT_SYMBOLS ==
  << <<"E", "T", "H", "B", "T", "C">>, <<"L", "T", "C", "B", "T", "C">>,
     <<"B", "N", "B", "B", "T", "C">>, <<"N", "E", "O", "B", "T", "C">>,
     <<"Q", "T", "U", "M", "E", "T", "H">> >>

\* loadFromStorage: the list under trade_journal_symbols when it is a
\* non-empty array, and otherwise the defaults, written back under the key
loadFromStorage ==
  IF storage.symbols # Absent /\ Len(storage.symbols[1]) > 0
    THEN storage
    ELSE [storage EXCEPT !.symbols = Some(DEFAULT_SYMBOLS)]

\* useCoins calls fetchCoinsList when CreateTradeModal mounts.
FetchCoinsList ==
  /\ storage' = loadFromStorage
  /\ UNCHANGED <<serviceVars, hook, trades, uniqueSymbols, pageVars>>

\* syncSymbolsFromTrades(trades): the symbols key afterwards
syncSymbolsFromTrades(tradeList) == Some(getUniqueSymbols(tradeList))

\* -------------------------------------------------------------- useTrades
\* useTrades.addTrade
addTrade(trade) ==
  LET next == Append(trades, trade)
  IN /\ trades' = next
     /\ storage' = save(next)

\* a deleteTrade that updates the state and leaves localStorage alone
deleteTradeInMemory(st, id) ==
  [trades |-> SelectSeq(st.trades, LAMBDA t : t.id # id), storage |-> st.storage]

\* the updater of useTrades.deleteTrade applied to the state st = [trades,
\* storage]
deleteTrade(st, id) ==
  LET next == SelectSeq(st.trades, LAMBDA t : t.id # id)
  IN [trades |-> next, storage |-> save(next)]

\* useTrades.loadTrades
loadTrades == trades' = getAll

\* requestAnimationFrame(() => loadTrades()) after a create, and the
\* loadTrades of the demo loader
LoadTrades ==
  /\ loadTrades
  /\ filteredTrades' = Rendered(trades', filters)
  /\ UNCHANGED <<serviceVars, hook, storage, uniqueSymbols, filters,
                 selectedTradeIds>>

\* the mount effect of useTrades: syncSymbolsFromTrades(getAll()), loadTrades()
UseTradesEffect ==
  /\ storage' = [storage EXCEPT !.symbols = syncSymbolsFromTrades(getAll)]
  /\ loadTrades
  /\ filteredTrades' = Rendered(trades', filters)
  /\ UNCHANGED <<serviceVars, hook, uniqueSymbols, filters, selectedTradeIds>>

\* The form of CreateTradeModal is submitted at clock time t and
\* handleCreateTrade runs: addTrade, then the filters are reset.
CreateSubmit(form, t) ==
  LET r == handleSubmit(form, t)
  IN /\ r.submitted
     /\ now' = t
     /\ addTrade(r.trade)
     /\ filters' = defaultFilters
     /\ filteredTrades' = Rendered(trades', defaultFilters)
     /\ UNCHANGED <<currentWs, sockets, delivered, invoked, threw, calls,
                    lastOp, handed, hook, uniqueSymbols, selectedTradeIds>>

\* the updates object the Save button of TradeDetailModal builds: a function
\* on the keys it sets
updatesOf(editStatus, editClosePrice, editCloseTimestamp) ==
  LET closePriceNum == parseFloat(editClosePrice)
      keys == IF editStatus = "CLOSED" /\ isNaN(closePriceNum)
                THEN {"status", "closeTimestamp"}
                ELSE {"status", "closePrice", "closeTimestamp"}
  IN [k \in keys |->
        IF k = "status" THEN editStatus
        ELSE IF editStatus # "CLOSED" THEN Absent
        ELSE IF k = "closePrice" THEN Some(closePriceNum.value)
        ELSE Some(editCloseTimestamp)]

\* { ...t, ...updates }
merge(t, updates) ==
  [k \in TradeKeys |-> IF k \in DOMAIN updates THEN updates[k] ELSE t[k]]

\* useTrades.updateTrade
updateTrade(id, updates) ==
  LET next == [i \in DOMAIN trades |->
                 IF trades[i].id = id THEN merge(trades[i], updates) ELSE trades[i]]
  IN /\ trades' = next
     /\ storage' = save(next)

\* Save is pressed in the TradeDetailModal of the i-th trade.
DetailSave(i, editStatus, editClosePrice, editCloseTimestamp) ==
  /\ updateTrade(trades[i].id,
                 updatesOf(editStatus, editClosePrice, editCloseTimestamp))
  /\ filteredTrades' = Rendered(trades', filters)
  /\ UNCHANGED <<serviceVars, hook, uniqueSymbols, filters, selectedTradeIds>>

\* ---------------------------------------------------------- TradeListPage
\* handleFiltersChange(f): setFilters(f)
handleFiltersChange(f) ==
  /\ filters' = f
  /\ filteredTrades' = Rendered(trades, f)
  /\ UNCHANGED <<serviceVars, hook, trades, storage, uniqueSymbols,
                 selectedTradeIds>>

\* the checkbox of a row of the table
handleToggleTrade(tradeId) ==
  /\ selectedTradeIds' =
       IF tradeId \in Range(selectedTradeIds)
         THEN SelectSeq(selectedTradeIds, LAMBDA id : id # tradeId)
         ELSE Append(selectedTradeIds, tradeId)
  /\ UNCHANGED <<serviceVars, hook, trades, storage, uniqueSymbols, filters,
                 filteredTrades>>

\* the checkbox of the table header
handleSelectAllChange(selected) ==
  /\ selectedTradeIds' =
       IF selected THEN [i \in DOMAIN filteredTrades |-> filteredTrades[i].id]
       ELSE <<>>
  /\ UNCHANGED <<serviceVars, hook, trades, storage, uniqueSymbols, filters,
                 filteredTrades>>

\* selectedTradeIds.forEach((id) => deleteTrade(id)): the updaters run in
\* order, each on the state the one before it left
RECURSIVE forEachDelete(_, _)
forEachDelete(st, ids) ==
  IF ids = <<>> THEN st
  ELSE forEachDelete(deleteTrade(st, Head(ids)), Tail(ids))

\* the confirm button of the bulk delete (shown when a row is selected)
handleConfirmDeleteSelected ==
  LET st == forEachDelete([trades |-> trades, storage |-> storage], selectedTradeIds)
  IN /\ selectedTradeIds # <<>>
     /\ trades' = st.trades
     /\ storage' = st.storage
     /\ selectedTradeIds' = <<>>
     /\ filteredTrades' = Rendered(trades', filters)
     /\ UNCHANGED <<serviceVars, hook, uniqueSymbols, filters>>

\* The journal: trades created and edited through the two modals.
PriceInputs == {<<>>, <<"5">>, <<"0">>, <<"-", "5">>}
Forms ==
  [symbol : {<<"b">>}, status : {"OPEN", "CLOSED"}, openPrice : {<<>>, <<"5">>},
   closePrice : PriceInputs, quantity : {<<"5">>}, closeTimestamp : {now},
   position : {"LONG"}, openTimestamp : {now}, notes : {<<>>},
   selectedTags : {<<>>}]
NextJournal ==
  \/ \E form \in Forms : \E t \in {now, now + 1} :
       /\ Len(trades) < JournalTrades
       /\ CreateSubmit(form, t)
  \/ \E i \in DOMAIN trades : \E editStatus \in {"OPEN", "CLOSED"} :
       \E editClosePrice \in PriceInputs :
         DetailSave(i, editStatus, editClosePrice, now)
SpecJournal == Init /\ [][NextJournal]_vars

\* The page: at most PageTrades trades are ever created, one per clock
\* tick, and are selected, filtered by status, edited and deleted.
PageForms ==
  [symbol : {<<"b">>}, status : {"OPEN", "CLOSED"}, openPrice : {<<"5">>},
   closePrice : {<<"5">>}, quantity : {<<"5">>}, closeTimestamp : {now},
   position : {"LONG"}, openTimestamp : {now}, notes : {<<>>},
   selectedTags : {<<>>}]
NextPage ==
  \/ \E form \in PageForms :
       /\ now < PageTrades
       /\ CreateSubmit(form, now + 1)
  \/ \E i \in DOMAIN trades : \E editStatus \in {"OPEN", "CLOSED"} :
       DetailSave(i, editStatus, <<"5">>, now)
  \/ \E status \in {"", "OPEN", "CLOSED"} :
       handleFiltersChange([filters EXCEPT !.status = status])
  \/ \E i \in DOMAIN filteredTrades : handleToggleTrade(filteredTrades[i].id)
  \/ \E selected \in BOOLEAN : handleSelectAllChange(selected)
  \/ handleConfirmDeleteSelected
  \/ LoadTrades
  \/ UseTradesEffect
  \/ FetchCoinsList
SpecPage == Init /\ [][NextPage]_vars

\* Filtering: every list of up to FilterTrades of four trades that differ in
\* every filtered field, under filters changed one control at a time.
TradeChoices ==
  {[OpenTrade(0, <<"b">>) EXCEPT !.tags = Some(<< <<"B">>, <<"e">> >>),
                                 !.notes = Some(<<"b", "E">>)],
   [OpenTrade(0, <<"B">>) EXCEPT !.position = "SHORT", !.status = "CLOSED",
                                 !.closePrice = Some(5), !.closeTimestamp = Some(0)],
   [OpenTrade(0, <<"E">>) EXCEPT !.status = "CLOSED", !.closePrice = Some(5),
                                 !.closeTimestamp = Some(0),
                                 !.tags = Some(<< <<"E">> >>),
                                 !.notes = Some(<<"e">>)],
   [OpenTrade(0, <<"b", "E">>) EXCEPT !.position = "SHORT",
                                      !.tags = Some(<< <<"b">> >>),
                                      !.notes = Some(<<" ", "B">>)]}
FilterChoices ==
  [symbol : {<<>>, <<"B">>, <<"e">>}, position : {"", "LONG", "SHORT"},
   status : {"", "OPEN"}, entryType : {"", "BUY", "SELL"},
   tags : {<<>>, << <<"b">> >>, << <<"b">>, <<"E">> >>},
   searchNotes : {<<>>, <<" ">>, <<"E">>, <<" ", "b">>}]
FilterFields == DOMAIN defaultFilters
InitFilter ==
  /\ ServiceInit
  /\ hook = Unmounted
  /\ \E choice \in SeqsUpTo(TradeChoices, FilterTrades) :
       trades = [i \in DOMAIN choice |->
                   [choice[i] EXCEPT !.id = i, !.openTimestamp = i]]
  /\ storage = save(trades)
  /\ uniqueSymbols = [queried |-> FALSE, value |-> <<>>]
  /\ filters = defaultFilters
  /\ selectedTradeIds = <<>>
  /\ filteredTrades = Rendered(trades, defaultFilters)
NextFilter ==
  \E f \in FilterChoices :
    /\ Cardinality({k \in FilterFields : f[k] # filters[k]}) = 1
    /\ handleFiltersChange(f)
SpecFilter == InitFilter /\ [][NextFilter]_vars

\* ------------------------------------------------------------ helpers
Active(w) == sockets[w].readyState \in {CONNECTING, OPEN}
CloseCalled(w) == sockets[w].readyState \in {CLOSING, CLOSED}
DeliveredBy(w) == SelectSeq(delivered, LAMBDA d : d.session = w)

\* -------------------------------------------------------------- claims
\* C1: in every reachable state at most one WebSocket created by
\* subscribeMarketData is CONNECTING or OPEN.
C1_AtMostOneActive == Cardinality({w \in Ids : Active(w)}) <= 1

\* C2: when the session of a subscribe call has had a snapshot delivered,
\* close() has been called on the connection of the subscribe call before it
\* (or that connection is closed), and no snapshot of a superseded session
\* is delivered after one of the session that superseded it.
C2_ResubscriptionBarrier ==
  \A j \in Ids :
    DeliveredBy(j) # <<>> =>
      /\ j > 1 => CloseCalled(j - 1)
      /\ LET p == sockets[j].previousWs
         IN p # Null =>
              \A i \in 1..Len(delivered), k \in 1..Len(delivered) :
                (i < k /\ delivered[i].session = j) => delivered[k].session # p

C2_Witness ==
  /\ Len(sockets) = 2
  /\ sockets[2].previousWs = 1
  /\ sockets[1].streams # sockets[2].streams
  /\ Len(delivered) = 2
  /\ delivered[1].session = 1
  /\ delivered[2].session = 2

\* C3: once a subscribe call for a different symbol set has returned, no
\* snapshot delivered afterwards comes from the superseded connection (so
\* none holds a key of the old set).
C3_NoStaleSnapshot ==
  [][\A j \in Ids :
       LET p == sockets[j].previousWs
       IN (p # Null /\ sockets[p].streams # sockets[j].streams) =>
            Len(DeliveredBy(p))' = Len(DeliveredBy(p))]_vars

\* C4: within one session, the n-th snapshot handed to the callback has as
\* keys exactly the symbols of the first n valid ticks, each mapped to the
\* quote built from the latest of those ticks for that symbol.
ValidTick(msg) ==
  /\ msg.parses
  /\ msg.hasData
  /\ msg.s \notin {Undefined, <<>>}
  /\ msg.c \notin {NoPrice, ""}

ValidTicks(w) == SelectSeq(sockets[w].received, LAMBDA r : ValidTick(r.msg))

LatestFor(ticks, s) ==
  CHOOSE i \in 1..Len(ticks) :
    /\ ticks[i].msg.s = s
    /\ \A j \in (i + 1)..Len(ticks) : ticks[j].msg.s # s

ExpectedSnapshot(ticks) ==
  [s \in {ticks[i].msg.s : i \in 1..Len(ticks)} |->
     toMarketSymbolData(ticks[LatestFor(ticks, s)].msg, ticks[LatestFor(ticks, s)].at)]

C4_FoldLastWriteWins ==
  \A w \in Ids :
    LET ticks == ValidTicks(w)
        got == DeliveredBy(w)
    IN /\ Len(got) = Len(ticks)
       /\ \A n \in 1..Len(ticks) : got[n].data = ExpectedSnapshot(SubSeq(ticks, 1, n))

C4_Witness ==
  /\ Len(sockets) = 1
  /\ Len(sockets[1].received) = 3
  /\ sockets[1].received[1].msg = TickB
  /\ sockets[1].received[2].msg = TickE
  /\ sockets[1].received[3].msg = TickB2
  /\ Len(delivered) = 3
  /\ DOMAIN delivered[3].data = {<<"B">>, <<"E">>}
  /\ delivered[3].data[<<"B">>].last = "2"

\* C5: a message event whose payload is not JSON, has no data object, or
\* lacks a symbol or a last price leaves the session's dataMap and the list
\* of callback invocations unchanged, throws nothing and leaves the socket
\* OPEN; a valid tick on the same socket is folded and delivered whatever
\* came before it.
Received(w, msg) ==
  /\ Len(sockets'[w].received) = Len(sockets[w].received) + 1
  /\ sockets'[w].received[Len(sockets'[w].received)].msg = msg

C5_MalformedDropped ==
  [][\A w \in Ids : \A msg \in DecodeFeed :
       Received(w, msg) =>
         IF ValidTick(msg)
           THEN /\ msg.s \in DOMAIN sockets'[w].dataMap
                /\ delivered' = Append(delivered, [session |-> w,
                                                   data |-> sockets'[w].dataMap])
           ELSE /\ sockets'[w].dataMap = sockets[w].dataMap
                /\ delivered' = delivered
                /\ threw' = FALSE
                /\ sockets'[w].readyState = OPEN]_vars

C5_Witness ==
  /\ Len(sockets) = 1
  /\ Len(sockets[1].received) = 2
  /\ sockets[1].received[1].msg = NoLast
  /\ sockets[1].received[2].msg = TickB
  /\ Len(delivered) = 1
  /\ DOMAIN delivered[1].data = {<<"B">>}

\* C6: a subscribe call whose list is empty after trimming creates no
\* WebSocket, calls the callback exactly once with an empty snapshot and
\* throws nothing; invoking the handle it returns changes no state.
C6_EmptySubscribe ==
  [][/\ (lastOp'.op = "subscribe" /\ Trimmed(lastOp'.arg) = <<>>) =>
          /\ Len(sockets') = Len(sockets)
          /\ delivered' = Append(delivered, [session |-> Null, data |-> EmptyMap])
          /\ threw' = FALSE
     /\ lastOp'.op = "unsubscribeNoop" =>
          UNCHANGED <<currentWs, sockets, delivered, invoked, now, threw, calls>>]_vars

C6_Witness ==
  /\ lastOp.op = "subscribe"
  /\ lastOp.arg = Blank
  /\ Len(sockets) = 1
  /\ sockets[1].readyState = CLOSING
  /\ currentWs = Null
  /\ delivered = <<[session |-> Null, data |-> EmptyMap]>>

\* C7: invoking a cleanup never throws, and invoking a cleanup that has
\* been invoked before changes neither currentWs nor any socket.
C7_CleanupIdempotent ==
  [][lastOp'.op = "unsubscribe" =>
       /\ threw' = FALSE
       /\ lastOp'.arg[1] => (currentWs' = currentWs /\ sockets' = sockets)]_vars

C7_Witness ==
  /\ lastOp.op = "unsubscribe"
  /\ lastOp.arg[1]
  /\ lastOp.ws = 1
  /\ currentWs = 2
  /\ sockets[1].readyState = CLOSED

\* C8: invoking the cleanup of a session that a later subscribe call has
\* superseded closes no socket and leaves currentWs as it was.
C8_SupersededCleanupNoop ==
  [][(lastOp'.op = "unsubscribe" /\ lastOp'.ws < Len(sockets)) =>
       (sockets' = sockets /\ currentWs' = currentWs)]_vars

\* C9: invoking the cleanup of the session that is still current calls
\* close() on its socket and clears currentWs; a socket on which close() was
\* called stays closing or closed and delivers no further snapshot.
C9_CleanupClosesCurrent ==
  [][/\ (lastOp'.op = "unsubscribe" /\ lastOp'.arg[2]) =>
          /\ sockets'[lastOp'.ws].readyState \in {CLOSING, CLOSED}
          /\ currentWs' = Null
     /\ \A w \in Ids :
          CloseCalled(w) =>
            (CloseCalled(w)' /\ Len(DeliveredBy(w))' = Len(DeliveredBy(w)))]_vars

C9_Witness ==
  /\ lastOp.op = "unsubscribe"
  /\ lastOp.arg[2]
  /\ DeliveredBy(lastOp.ws) # <<>>
  /\ sockets[lastOp.ws].readyState = CLOSING
  /\ currentWs = Null

\* C10: the number of WebSockets ever created equals the number of
\* subscribe calls whose list was not empty after trimming: no socket event
\* and no cleanup creates one.
C10_NoReconnect == Len(sockets) = calls.open

C10_Witness ==
  /\ Len(sockets) = 2
  /\ sockets[1].readyState = CLOSED
  /\ sockets[2].readyState = CLOSED
  /\ sockets[2].previousWs = Null
  /\ invoked = {}
  /\ calls.empty = 0
  /\ currentWs = Null

\* C11: a close event, whether a failed open or a drop, invokes no callback
\* and throws nothing, and leaves the data of useMarketData as it was.
C11_DropIsSilent ==
  [][(\E w \in Ids : /\ sockets[w].readyState # CLOSED
                     /\ sockets'[w].readyState = CLOSED)
       => /\ delivered' = delivered
          /\ threw' = threw
          /\ hook'.data = hook.data]_vars

\* a connection that dropped, not closed by the hook, after its snapshot
\* had become the hook's data
C11_Witness ==
  \E w \in Ids :
    /\ sockets[w].readyState = CLOSED
    /\ w \notin invoked
    /\ hook.mounted
    /\ DeliveredBy(w) # <<>>
    /\ hook.data = sockets[w].dataMap
    /\ hook.data # EmptyMap

\* C12: once the symbol set has changed, the data useMarketData shows holds
\* no quote for a symbol that is not in the set: the change replaced the
\* data by an empty snapshot.
C12_NoQuoteOutsideSet ==
  hook.mounted =>
    \A k \in DOMAIN hook.data : k \in Range(Trimmed(Syms(hook.symbolsKey)))

\* C13: every key of every delivered snapshot is in uppercase, and so is the
\* symbol its quote carries.
C13_KeysUppercase ==
  \A i \in DOMAIN delivered :
    \A k \in DOMAIN delivered[i].data :
      /\ k = toUpperCase(k)
      /\ delivered[i].data[k].symbol = toUpperCase(delivered[i].data[k].symbol)

\* the entries an object handed out at the k-th invocation holds now: those
\* of the session's dataMap if it is that object, and otherwise the ones it
\* was created with
ContentsNow(k) ==
  IF handed[k].copy = 0
    THEN sockets[handed[k].owner].dataMap
    ELSE delivered[k].data

RECURSIVE Replay(_)
Replay(ticks) ==
  IF ticks = <<>> THEN EmptyMap
  ELSE LET n == Len(ticks)
           before == Replay(SubSeq(ticks, 1, n - 1))
           quote == toMarketSymbolData(ticks[n].msg, ticks[n].at)
       IN [s \in DOMAIN before \cup {ticks[n].msg.s} |->
             IF s = ticks[n].msg.s THEN quote ELSE before[s]]

\* C15: a session has invoked the callback once per decoded message received
\* so far, the k-th time with the snapshot accumulated from the first k
\* decoded messages, and the invocations are in arrival order.
C15_OnePublishPerTick ==
  \A w \in Ids :
    LET ticks == ValidTicks(w)
        got == DeliveredBy(w)
    IN /\ Len(got) = Len(ticks)
       /\ \A k \in 1..Len(got) :
            /\ got[k].data = Replay(SubSeq(ticks, 1, k))
            /\ got[k].data[ticks[k].msg.s].date = ticks[k].at
       /\ \A k \in 1..(Len(got) - 1) :
            got[k].data[ticks[k].msg.s].date < got[k + 1].data[ticks[k + 1].msg.s].date

\* two decoded ticks of one symbol with a dropped message between them
C15_Witness ==
  \E w \in Ids :
    /\ Len(sockets[w].received) = 3
    /\ ValidTick(sockets[w].received[1].msg)
    /\ ~ValidTick(sockets[w].received[2].msg)
    /\ ValidTick(sockets[w].received[3].msg)
    /\ Len(DeliveredBy(w)) = 2

\* the streams of a symbols argument: one per entry that is not blank, in
\* the order of the entries, named by the entry trimmed and in lowercase
RECURSIVE ExpectedStreams(_)
ExpectedStreams(symbols) ==
  IF symbols = <<>> THEN <<>>
  ELSE LET t == trim(Head(symbols))
       IN (IF t = <<>> THEN <<>> ELSE << toLowerCase(t) \o <<"@ticker">> >>)
            \o ExpectedStreams(Tail(symbols))

\* C16: a subscribe call whose list has a non-blank entry creates exactly
\* one connection, CONNECTING, with the expected streams; no other step
\* creates a connection; the streams of a connection never change.
C16_OneConnectionPerSubscribe ==
  [][/\ (calls' # calls /\ ExpectedStreams(lastOp'.arg) # <<>>)
          => /\ Len(sockets') = Len(sockets) + 1
             /\ sockets'[Len(sockets')].readyState = CONNECTING
             /\ sockets'[Len(sockets')].streams = ExpectedStreams(lastOp'.arg)
     /\ (calls' = calls \/ ExpectedStreams(lastOp'.arg) = <<>>)
          => Len(sockets') = Len(sockets)
     /\ \A w \in Ids : sockets'[w].streams = sockets[w].streams]_vars

\* a second connection was just created for a list with a padded and a
\* blank entry, beside an earlier connection
C16_Witness ==
  /\ lastOp = Op("subscribe", 2, Mixed)
  /\ Len(sockets) = 2
  /\ sockets[2].streams = << <<"b", "@ticker">>, <<"e", "@ticker">> >>
  /\ sockets[1].streams = sockets[2].streams

\* the quote a tick alone determines at time `date`
QuoteOf(msg, date) ==
  [symbol |-> msg.s,
   last |-> msg.c,
   last_btc |-> "1",
   lowest |-> IF msg.l = NoPrice THEN msg.c ELSE msg.l,
   highest |-> IF msg.h = NoPrice THEN msg.c ELSE msg.h,
   date |-> date,
   daily_change_percentage |-> IF msg.P = NoPrice THEN "0" ELSE msg.P,
   source_exchange |-> "binance"]

\* C17: a decoded tick for a symbol that already has a quote leaves under
\* that symbol the quote the tick alone determines: a missing high or low is
\* the tick's last price, a missing percent change is "0", and nothing of
\* the earlier quote remains.
C17_FullReplacement ==
  [][\A w \in Ids :
       LET n == Len(sockets'[w].received)
           msg == sockets'[w].received[n].msg
       IN (/\ n = Len(sockets[w].received) + 1
           /\ ValidTick(msg)
           /\ msg.s \in DOMAIN sockets[w].dataMap)
            => /\ sockets'[w].dataMap[msg.s] = QuoteOf(msg, now')
               /\ delivered'[Len(delivered')].data[msg.s] = QuoteOf(msg, now')]_vars

\* a quote with its own high, low and percent change was replaced by a tick
\* that has none of them
C17_Witness ==
  \E w \in Ids :
    /\ Len(sockets[w].received) = 2
    /\ sockets[w].received[1].msg = TickB2
    /\ sockets[w].received[2].msg = TickB
    /\ sockets[w].dataMap[<<"B">>].highest = "1"
    /\ sockets[w].dataMap[<<"B">>].daily_change_percentage = "0"

\* C18: the result of getUniqueSymbols holds the uppercase form of every
\* trade's symbol and nothing else, holds nothing twice, and is empty for an
\* empty trade list.
C18_UniqueSymbols ==
  uniqueSymbols.queried =>
    LET result == uniqueSymbols.value
    IN /\ Range(result) = {toUpperCase(trades[i].symbol) : i \in DOMAIN trades}
       /\ \A i, j \in DOMAIN result : i # j => result[i] # result[j]
       /\ trades = <<>> => result = <<>>

\* two trades whose symbols differ only in case, and a third symbol
C18_Witness ==
  /\ Len(trades) = 3
  /\ trades[1].symbol = <<"b">>
  /\ trades[2].symbol = <<"E">>
  /\ trades[3].symbol = <<"B">>
  /\ uniqueSymbols = [queried |-> TRUE, value |-> << <<"B">>, <<"E">> >>]

\* the state of a session: Connecting, Streaming or Closed (close() called
\* on its connection, or its close event handled)
Phase(sock) ==
  IF sock.readyState = CONNECTING THEN "Connecting"
  ELSE IF sock.readyState = OPEN THEN "Streaming"
  ELSE "Closed"

\* the order of the session states
Forward(from, to) ==
  \/ from = to
  \/ from = "Connecting"
  \/ from = "Streaming" /\ to = "Closed"

\* C19: a session only moves forward through Connecting, Streaming, Closed;
\* its callback fires only in a step that starts and ends with it Streaming;
\* a Closed session keeps its snapshot and receives nothing more; and a
\* subscribe call starts its session on a new connection, Connecting, with
\* an empty snapshot.
C19_SessionLifecycle ==
  [][/\ \A w \in Ids :
          /\ Forward(Phase(sockets[w]), Phase(sockets'[w]))
          /\ Len(DeliveredBy(w)') > Len(DeliveredBy(w))
               => Phase(sockets[w]) = "Streaming" /\ Phase(sockets'[w]) = "Streaming"
          /\ Phase(sockets[w]) = "Closed"
               => /\ sockets'[w].dataMap = sockets[w].dataMap
                  /\ sockets'[w].received = sockets[w].received
                  /\ currentWs' # w
     /\ Len(sockets') >= Len(sockets)
     /\ \A w \in (1..Len(sockets')) \ Ids :
          /\ Phase(sockets'[w]) = "Connecting"
          /\ sockets'[w].dataMap = EmptyMap
          /\ DeliveredBy(w)' = <<>>]_vars

\* a session that streamed and is closed, and a later session streaming
\* its own snapshot
C19_Witness ==
  \E v, w \in Ids :
    /\ v < w
    /\ sockets[v].readyState = CLOSED
    /\ DeliveredBy(v) # <<>>
    /\ sockets[w].readyState = OPEN
    /\ DeliveredBy(w) # <<>>
    /\ DOMAIN sockets[w].dataMap # DOMAIN sockets[v].dataMap

\* C20: every trade of the in-memory list and of the stored list that is
\* OPEN has neither a close price nor a close time, and every one that is
\* CLOSED has both.
StatusRule(t) ==
  /\ t.status = "OPEN" => t.closePrice = Absent /\ t.closeTimestamp = Absent
  /\ t.status = "CLOSED" => t.closePrice # Absent /\ t.closeTimestamp # Absent

C20_StatusRule ==
  /\ \A i \in DOMAIN trades : StatusRule(trades[i])
  /\ \A i \in DOMAIN getAll : StatusRule(getAll[i])

\* the cleanup of run r has executed: a later run exists, or the component
\* has unmounted
CleanedUp(r) ==
  /\ hook.runs[r].syms # <<>>
  /\ r < Len(hook.runs) \/ ~hook.mounted

C25_HookKeepsOneConnection ==
  /\ Cardinality({w \in Ids : Active(w)}) <= 1
  /\ Ids \subseteq invoked => \A w \in Ids : ~Active(w)

\* two sessions, one of which delivered, and both handles invoked
C25_Witness ==
  /\ Len(sockets) >= 2
  /\ Ids \subseteq invoked
  /\ \E w \in Ids : DeliveredBy(w) # <<>>

\* C26: once the unsubscribe handle of a session has been invoked, the
\* callback of that session is not invoked again.
C26_NoCallbackAfterUnsubscribe ==
  [][Len(delivered') > Len(delivered)
       => delivered'[Len(delivered')].session \notin invoked]_vars

\* C28: currentWs is null or the most recently created connection, and
\* never a connection on which close() has been called or whose close event
\* has been handled.
C28_CurrentIsLatestAndLive ==
  \/ currentWs = Null
  \/ /\ currentWs = Len(sockets)
     /\ ~CloseCalled(currentWs)

\* the latest connection dropped without its handle being invoked, which
\* cleared currentWs, while the connection before it is still closing
C28_Witness ==
  /\ Len(sockets) >= 2
  /\ currentWs = Null
  /\ sockets[Len(sockets)].readyState = CLOSED
  /\ Len(sockets) \notin invoked
  /\ sockets[Len(sockets) - 1].readyState = CLOSING

\* C27: when every unsubscribe handle is eventually invoked, every
\* connection ever created is eventually CLOSED.
C27_EveryConnectionCloses ==
  \A w \in 1..LiveSockets :
    (w \in Ids) ~> (w \in Ids /\ sockets[w].readyState = CLOSED)

\* a superseded connection and its successor, both handles invoked and both
\* connections closed
C27_Witness ==
  /\ Len(sockets) >= 2
  /\ sockets[Len(sockets)].previousWs = Len(sockets) - 1
  /\ Ids \subseteq invoked
  /\ \A w \in Ids : sockets[w].readyState = CLOSED

\* the normalized symbol list of session w, read back from its streams
NormalizedOf(w) ==
  {toUpperCase(SubSeq(st, 1, Len(st) - 1)) : st \in Range(sockets[w].streams)}

\* C29 (as stated): every key of a snapshot delivered by a session is one of
\* the symbols the session subscribed to.
C29_OnlySubscribedKeys ==
  \A n \in DOMAIN delivered :
    delivered[n].session # Null =>
      DOMAIN delivered[n].data \subseteq NormalizedOf(delivered[n].session)

\* C29 (amended): every well-formed tick a session's connection receives,
\* for a subscribed symbol or not, is folded under its own symbol and
\* triggers onUpdate, so the keys of the snapshot delivered are exactly the
\* symbols of the well-formed ticks the session has received.
C29_EveryDecodedTickFolded ==
  [][\A w \in Ids : \A msg \in FoldFeed :
       Received(w, msg) =>
         LET last == delivered'[Len(delivered')]
             seen == {sockets'[w].received[i].msg.s :
                        i \in {j \in DOMAIN sockets'[w].received :
                                 ValidTick(sockets'[w].received[j].msg)}}
         IN /\ Len(delivered') = Len(delivered) + 1
            /\ last.session = w
            /\ msg.s \in DOMAIN last.data
            /\ DOMAIN last.data = seen]_vars

\* a session that asked for B only has delivered a snapshot with a key E
C29_Witness ==
  \E n \in DOMAIN delivered :
    /\ delivered[n].session # Null
    /\ NormalizedOf(delivered[n].session) = {<<"B">>}
    /\ <<"E">> \in DOMAIN delivered[n].data

C21_SymbolsFromTrades ==
  storage.symbols # Absent =>
    \A k \in DOMAIN storage.symbols[1] :
      \E i \in DOMAIN getAll : toUpperCase(getAll[i].symbol) = storage.symbols[1][k]

\* C30: every id in selectedTradeIds is the id of a trade shown in the
\* filtered table.
C30_SelectionIsVisible ==
  \A k \in DOMAIN selectedTradeIds :
    \E i \in DOMAIN filteredTrades : filteredTrades[i].id = selectedTradeIds[k]

\* two strings are equal ignoring case
EqIgnoreCase(a, b) == toLowerCase(a) = toLowerCase(b)

\* trade t satisfies every active criterion of f
Matches(t, f) ==
  LET own == IF t.tags = Absent THEN {} ELSE Range(t.tags[1])
      text == IF t.notes = Absent THEN <<>> ELSE toLowerCase(t.notes[1])
      query == toLowerCase(f.searchNotes)
  IN /\ f.symbol # <<>> => EqIgnoreCase(t.symbol, f.symbol)
     /\ f.position # "" => t.position = f.position
     /\ f.status # "" => t.status = f.status
     /\ f.entryType = "BUY" => t.position = "LONG"
     /\ f.entryType = "SELL" => t.position = "SHORT"
     /\ \A tag \in Range(f.tags) : \E mine \in own : EqIgnoreCase(mine, tag)
     /\ (\E i \in DOMAIN f.searchNotes : f.searchNotes[i] # " ") =>
          \E at \in 1..(Len(text) - Len(query) + 1) :
            \A k \in DOMAIN query : text[at + k - 1] = query[k]

\* C23: filterTrades returns the trades that satisfy every active criterion,
\* in their input order and nothing else; all of them when every criterion
\* is empty, and none for position SHORT with entryType BUY.
C23_FilterTrades ==
  LET result == filterTrades(trades, filters)
      hits == {i \in DOMAIN trades : Matches(trades[i], filters)}
      nth(k) == CHOOSE i \in hits : Cardinality({j \in hits : j < i}) = k - 1
  IN /\ Len(result) = Cardinality(hits)
     /\ \A k \in DOMAIN result : result[k] = trades[nth(k)]
     /\ filters = defaultFilters => result = trades
     /\ (filters.position = "SHORT" /\ filters.entryType = "BUY") => result = <<>>
     /\ Len(filteredTrades) = Len(result)
     /\ Range(filteredTrades) = Range(result)

\* four criteria active at once keep the first of two trades and drop the
\* second, which has only one of the two selected tags
C23_Witness ==
  /\ Len(trades) = 2
  /\ filters.symbol = <<"B">>
  /\ filters.entryType = "BUY"
  /\ filters.tags = << <<"b">>, <<"E">> >>
  /\ filters.searchNotes = <<"E">>
  /\ trades[2].tags = Some(<< <<"b">> >>)
  /\ Len(filteredTrades) = 1
  /\ filteredTrades[1] = trades[1]

====
